---- MODULE Spec2Model ----
(***************************************************************************)
(* A model of daft_to_trello.py: the authenticated REST client             *)
(* (TrelloClient), the cached fetcher (CachedHttpClient), the field        *)
(* extractor (scrape_daft_page) and the import command (import_ad).        *)
(*                                                                         *)
(* Python values are modelled as strings: text is itself, and the          *)
(* non-text values None, False and 0 are the tokens PyNone, PyFalse and    *)
(* PyZero.  A dict is a function whose domain is its set of keys.          *)
(***************************************************************************)
EXTENDS Integers, Sequences, FiniteSets, TLC

VARIABLES
    client,       \* TrelloClient instance: [api_key, user_token]
    call,         \* the client operation last invoked, with its arguments
    sent,         \* HTTP requests handed to requests.request by the current command
    outcome,      \* how the last TrelloClient.request ended
    cacheFile,    \* REQUEST_CACHE_FILE is set (a cache store is configured)
    shelf,        \* content of the shelve store: url -> stored body
    handles,      \* number of open handles on the shelve store
    site,         \* the documents the listing site may serve
    cmd,          \* the command being run: "none", "get", "scrape_daft", "import_ad"
    pc,           \* position inside the command
    url,          \* the url argument of the command
    net,          \* live HTTP GETs issued by the current CachedHttpClient.get
    begin,        \* history: the store and the url's record when the current get began
    fetched,      \* history: url -> body returned by the first successful live fetch
    got,          \* how the last CachedHttpClient.get ended
    response,     \* the live response between requests.get and the store
    scrape,       \* how scrape_daft_page ended, with the record it built
    locals,       \* import_ad locals: target_list_id, card id, img_att id, the error raised
    failures      \* store failures injected so far (bounded)

vars == <<client, call, sent, outcome, cacheFile, shelf, handles, site, cmd, pc,
          url, net, begin, fetched, got, response, scrape, locals, failures>>

clientVars == <<client, call, sent, outcome>>
cacheVars == <<cacheFile, shelf, handles, site, net, begin, fetched, got, response, failures>>
cmdVars == <<cmd, pc, url, scrape, locals>>

-----------------------------------------------------------------------------
(* Python values and dicts *)

PyNone == "<None>"
PyFalse == "<False>"
PyZero == "<0>"

\* Python truth value of a modelled value
Truthy(v) == v \notin {PyNone, PyFalse, PyZero, ""}

\* str.format of a value: None prints as the text None
Format(v) == IF v = PyNone THEN "None"
             ELSE IF v = PyFalse THEN "False"
             ELSE IF v = PyZero THEN "0"
             ELSE v

EmptyDict == [k \in {} |-> ""]

\* d[k] = v
DictSet(d, k, v) == [x \in (DOMAIN d) \cup {k} |-> IF x = k THEN v ELSE d[x]]

\* if v: d[k] = v
DictSetIf(d, k, v) == IF Truthy(v) THEN DictSet(d, k, v) ELSE d

-----------------------------------------------------------------------------
(* TrelloClient *)

base_url == "https://api.trello.com"

\* str.upper() on the method names used here
Upper(method) ==
    CASE method = "get" -> "GET"
      [] method = "post" -> "POST"
      [] method = "head" -> "HEAD"
      [] OTHER -> method

HasPrefix(s, p) == Len(s) >= Len(p) /\ SubSeq(s, 1, Len(p)) = p

\* urlparse.urljoin(base_url, path): an absolute url overrides the base
UrlJoin(base, path) ==
    IF HasPrefix(path, "https://") \/ HasPrefix(path, "http://")
    THEN path
    ELSE base \o path

\* requests' Response.ok: raise_for_status() raises for 400 <= status < 600
Ok(status) == ~(400 <= status /\ status < 600)

\* Response.json(): the body decoded, or a ValueError when it is not JSON
JsonParse(body) ==
    CASE body = "{\"id\":\"c1\"}" -> [ok |-> TRUE, value |-> [id |-> "c1"]]
      [] body = "{\"id\":\"a1\"}" -> [ok |-> TRUE, value |-> [id |-> "a1"]]
      [] body = "{\"id\":\"a2\"}" -> [ok |-> TRUE, value |-> [id |-> "a2"]]
      [] body = "{\"lists\":[{\"id\":\"l1\"},{\"id\":\"l2\"}]}"
            -> [ok |-> TRUE, value |-> [lists |-> <<[id |-> "l1"], [id |-> "l2"]>>]]
      [] body = "{\"lists\":[]}" -> [ok |-> TRUE, value |-> [lists |-> <<>>]]
      [] body = "{}" -> [ok |-> TRUE, value |-> EmptyDict]
      [] OTHER -> [ok |-> FALSE, value |-> EmptyDict]

NoResponse == [kind |-> "none", status |-> 0, body |-> ""]

\* TrelloClientException.from_response
from_response(resp) ==
    [kind |-> "TrelloClientException", status |-> resp.status, response |-> resp,
     value |-> EmptyDict, json_called |-> FALSE]

\* request without the 204 case: every ok response is parsed
RequestOutcomeParsesNoContent(resp) ==
    IF resp.kind = "transport"
    THEN [kind |-> "TransportError", status |-> 0, response |-> NoResponse,
          value |-> EmptyDict, json_called |-> FALSE]
    ELSE IF ~Ok(resp.status)
    THEN from_response(resp)
    ELSE LET j == JsonParse(resp.body) IN
         IF j.ok
         THEN [kind |-> "return_json", status |-> 0, response |-> NoResponse,
               value |-> j.value, json_called |-> TRUE]
         ELSE [kind |-> "ValueError", status |-> 0, response |-> NoResponse,
               value |-> EmptyDict, json_called |-> TRUE]

\* What request does with the answer of requests.request (lines 127-132).
\* A transport failure is requests.request itself raising: there is no response.
RequestOutcome(resp) ==
    IF resp.kind = "transport"
    THEN [kind |-> "TransportError", status |-> 0, response |-> NoResponse,
          value |-> EmptyDict, json_called |-> FALSE]
    ELSE IF ~Ok(resp.status)
    THEN from_response(resp)
    ELSE IF resp.status = 204
    THEN [kind |-> "return_None", status |-> 0, response |-> NoResponse,
          value |-> EmptyDict, json_called |-> FALSE]
    ELSE LET j == JsonParse(resp.body) IN
         IF j.ok
         THEN [kind |-> "return_json", status |-> 0, response |-> NoResponse,
               value |-> j.value, json_called |-> TRUE]
         ELSE [kind |-> "ValueError", status |-> 0, response |-> NoResponse,
               value |-> EmptyDict, json_called |-> TRUE]

\* The parameter channel request injects the credentials into (lines 117-120)
ParamsArg(method) ==
    IF Upper(method) \in {"GET", "HEAD", "OPTIONS"} THEN "params" ELSE "data"

\* request keeping the caller's key and token where the caller supplied them
InjectCredentialsKeepCaller(c, method, kwargs) ==
    LET params_arg == ParamsArg(method)
        kw == IF params_arg \in DOMAIN kwargs THEN kwargs
              ELSE DictSet(kwargs, params_arg, EmptyDict)
        d0 == kw[params_arg]
        d1 == IF "key" \in DOMAIN d0 THEN d0 ELSE DictSet(d0, "key", c.api_key)
        d2 == IF "token" \in DOMAIN d1 THEN d1 ELSE DictSet(d1, "token", c.user_token)
    IN  DictSet(kw, params_arg, d2)

\* kwargs as handed to requests.request (lines 122-125)
InjectCredentials(c, method, kwargs) ==
    LET params_arg == ParamsArg(method)
        kw == IF params_arg \in DOMAIN kwargs THEN kwargs
              ELSE DictSet(kwargs, params_arg, EmptyDict)
    IN  DictSet(kw, params_arg,
                DictSet(DictSet(kw[params_arg], "key", c.api_key),
                        "token", c.user_token))

\* TrelloClient.request: the request it sends and how it ends
request(c, method, path, kwargs, resp) ==
    [req |-> [method |-> method, url |-> UrlJoin(base_url, path),
              kwargs |-> InjectCredentials(c, method, kwargs)],
     outcome |-> RequestOutcome(resp)]

TrelloGet(c, path, kwargs, resp) == request(c, "GET", path, kwargs, resp)
TrelloPost(c, path, kwargs, resp) == request(c, "POST", path, kwargs, resp)
TrelloPut(c, path, kwargs, resp) == request(c, "PUT", path, kwargs, resp)
TrelloDelete(c, path, kwargs, resp) == request(c, "DELETE", path, kwargs, resp)

Kw(name, d) == [k \in {name} |-> d]

list_user_boards(c, resp) == TrelloGet(c, "/1/members/me/boards", EmptyDict, resp)

get_board(c, board_id, lists, cards, resp) ==
    TrelloGet(c, "/1/boards/" \o board_id,
              Kw("params", DictSetIf(DictSetIf(EmptyDict, "lists", lists), "cards", cards)),
              resp)

create_card(c, list_id, name, desc, pos, url_source, resp) ==
    LET d0 == DictSet(EmptyDict, "idList", list_id)
        d1 == DictSetIf(d0, "name", name)
        d2 == DictSetIf(d1, "desc", desc)
        d3 == DictSetIf(d2, "pos", pos)
        d4 == DictSetIf(d3, "urlSource", url_source)
    IN  TrelloPost(c, "/1/cards", Kw("data", d4), resp)

attach_to_card(c, card_id, file_data, att_url, name, mimetype, resp) ==
    LET d1 == DictSetIf(EmptyDict, "file", file_data)
        d2 == DictSetIf(d1, "url", att_url)
        d3 == DictSetIf(d2, "name", name)
        d4 == DictSetIf(d3, "mimeType", mimetype)
    IN  TrelloPost(c, "/1/cards/" \o card_id \o "/attachments", Kw("data", d4), resp)

\* update_card testing the cover for truth instead of for None
UpdateCardDataTruthyCover(name, cover_attachment_id) ==
    LET d1 == IF name # PyNone THEN DictSet(EmptyDict, "name", name) ELSE EmptyDict
    IN  IF Truthy(cover_attachment_id)
        THEN DictSet(d1, "cover_attachment_id", cover_attachment_id)
        ELSE d1

\* The body fields update_card builds (lines 105-111)
UpdateCardData(name, cover_attachment_id) ==
    LET d1 == IF name # PyNone THEN DictSet(EmptyDict, "name", name) ELSE EmptyDict
    IN  IF cover_attachment_id # PyNone
        THEN DictSet(d1, "cover_attachment_id",
                     IF cover_attachment_id = PyFalse THEN "" ELSE cover_attachment_id)
        ELSE d1

update_card(c, card_id, name, cover_attachment_id, resp) ==
    TrelloPut(c, "/1/cards/" \o card_id,
              Kw("data", UpdateCardData(name, cover_attachment_id)), resp)

-----------------------------------------------------------------------------
(* Idle values of the parts of the state a specification does not use *)

NoCall == [op |-> "none", method |-> "", path |-> "", kwargs |-> EmptyDict,
           args |-> EmptyDict, resp |-> NoResponse]
NoOutcome == [kind |-> "none", status |-> 0, response |-> NoResponse,
              value |-> EmptyDict, json_called |-> FALSE]
\* An HTML document, as far as scrape_daft_page looks at it
Absent == "<absent>"      \* no node matches the selector
NoAttr == "<no src>"      \* the img node has no src attribute
EmptyPage == [content |-> FALSE, title |-> Absent, image |-> Absent, price |-> Absent,
              headers |-> <<>>, blocks |-> <<>>]

NoGot == [kind |-> "none", content |-> EmptyPage]
NoLive == [kind |-> "none", ok |-> FALSE, content |-> EmptyPage]
NoBegin == [shelf |-> EmptyDict, known |-> FALSE]
NoScrape == [status |-> "none", failed_at |-> "", reads |-> <<>>, info |-> EmptyDict]
NoLocals == [target_list_id |-> PyNone, card |-> NoOutcome, img_att |-> NoOutcome,
             error |-> ""]

Credentials == {[api_key |-> "KEY1", user_token |-> "TOKEN"],
                [api_key |-> "KEY2", user_token |-> "TOKEN"]}

-----------------------------------------------------------------------------
(* Inputs of the client operations *)

Methods == {"GET", "get", "HEAD", "OPTIONS", "POST", "post", "PUT", "DELETE", "PATCH"}
Paths == {"/1/cards", "https://other.example/x"}
CallerDicts == UNION {[S -> {"caller"}] : S \in SUBSET {"key", "token", "q"}}
CallerKwargs == UNION {[S -> CallerDicts] : S \in SUBSET {"params", "data"}}

Statuses == {200, 201, 204, 400, 404, 500}
Bodies == {"", "<html>", "{\"id\":\"c1\"}"}
TransportFailure == [kind |-> "transport", status |-> 0, body |-> ""]
Responses == [kind : {"response"}, status : Statuses, body : Bodies]
             \cup {TransportFailure}

\* The client keeps no state between calls, so a behaviour holds one call.
NotCalled == call.op = "none"

\* One client call: the call made, the request sent, the outcome
ClientCall(op, method, path, kwargs, args, resp, r) ==
    /\ call' = [op |-> op, method |-> method, path |-> path, kwargs |-> kwargs,
                args |-> args, resp |-> resp]
    /\ sent' = <<r.req>>
    /\ outcome' = r.outcome
    /\ UNCHANGED <<client, cacheVars, cmdVars>>

DoRequest ==
    /\ NotCalled
    /\ \E method \in Methods, path \in Paths, kwargs \in CallerKwargs, resp \in Responses :
        ClientCall("request", method, path, kwargs, EmptyDict, resp,
                   request(client, method, path, kwargs, resp))

DoListUserBoards ==
    /\ NotCalled
    /\ \E resp \in Responses :
        ClientCall("list_user_boards", "GET", "/1/members/me/boards", EmptyDict,
                   EmptyDict, resp, list_user_boards(client, resp))

DoGetBoard ==
    /\ NotCalled
    /\ \E lists \in {PyNone, "all", "open"}, cards \in {PyNone, "", "visible"},
       resp \in Responses :
        ClientCall("get_board", "GET", "/1/boards/b1", EmptyDict,
                   [board_id |-> "b1", lists |-> lists, cards |-> cards], resp,
                   get_board(client, "b1", lists, cards, resp))

DoCreateCard ==
    /\ NotCalled
    /\ \E name \in {PyNone, "", "Nice Flat"}, desc \in {PyNone, "", "A"},
       pos \in {PyNone, "bottom", "top"}, url_source \in {PyNone, "http://daft.example/1"},
       resp \in Responses :
        ClientCall("create_card", "POST", "/1/cards", EmptyDict,
                   [list_id |-> "l1", name |-> name, desc |-> desc, pos |-> pos,
                    url_source |-> url_source], resp,
                   create_card(client, "l1", name, desc, pos, url_source, resp))

DoAttachToCard ==
    /\ NotCalled
    /\ \E file_data \in {PyNone, "bytes"}, att_url \in {PyNone, "", "https://img.example/1.jpg"},
       name \in {PyNone, "pic"}, mimetype \in {PyNone, "image/jpeg"},
       resp \in Responses :
        ClientCall("attach_to_card", "POST", "/1/cards/c1/attachments", EmptyDict,
                   [card_id |-> "c1", file_data |-> file_data, url |-> att_url,
                    name |-> name, mimetype |-> mimetype], resp,
                   attach_to_card(client, "c1", file_data, att_url, name, mimetype, resp))

DoUpdateCard ==
    /\ NotCalled
    /\ \E name \in {PyNone, "", "New name"},
       cover_attachment_id \in {PyNone, PyFalse, PyZero, "", "a1"},
       resp \in Responses :
        ClientCall("update_card", "PUT", "/1/cards/c1", EmptyDict,
                   [card_id |-> "c1", name |-> name,
                    cover_attachment_id |-> cover_attachment_id], resp,
                   update_card(client, "c1", name, cover_attachment_id, resp))

InitIdleBut ==
    /\ call = NoCall
    /\ sent = <<>>
    /\ outcome = NoOutcome
    /\ handles = 0
    /\ cmd = "none"
    /\ pc = "idle"
    /\ url = ""
    /\ net = 0
    /\ begin = NoBegin
    /\ got = NoGot
    /\ response = NoLive
    /\ scrape = NoScrape
    /\ locals = NoLocals
    /\ failures = 0

InitIdle ==
    /\ InitIdleBut
    /\ shelf = EmptyDict
    /\ fetched = EmptyDict

InitClient ==
    /\ InitIdle
    /\ client \in Credentials
    /\ cacheFile = FALSE
    /\ site = {}

NextClient ==
    \/ DoRequest
    \/ DoListUserBoards
    \/ DoGetBoard
    \/ DoCreateCard
    \/ DoAttachToCard
    \/ DoUpdateCard

SpecClient == InitClient /\ [][NextClient]_vars

-----------------------------------------------------------------------------
(* CachedHttpClient.get.  The store is keyed by the url's UTF-8 bytes, which
   for the ASCII urls used here are the url's own characters. *)

MaxFailures == 1

URLs == {"http://daft.example/1", "http://daft.example/2"}

\* What requests.get may answer: a document of the site with an ok status, an
\* error status, or no answer at all (requests.get raises)
LiveResponses ==
    {[kind |-> "response", ok |-> TRUE, content |-> d] : d \in site}
    \cup {[kind |-> "response", ok |-> FALSE, content |-> EmptyPage],
          [kind |-> "transport", ok |-> FALSE, content |-> EmptyPage]}

\* get is entered (lines 164-168): with a store configured it is opened
EnterGet(u) ==
    /\ url' = u
    /\ net' = 0
    /\ got' = NoGot
    /\ response' = NoLive
    /\ begin' = [shelf |-> shelf, known |-> u \in DOMAIN fetched]
    /\ IF cacheFile
       THEN handles' = handles + 1 /\ pc' = "lookup"
       ELSE handles' = handles /\ pc' = "fetch"

\* get ends with g: its caller goes on, or the exception ends the command
LeaveGet(g) ==
    /\ got' = g
    /\ pc' = IF cmd # "get" /\ g.kind = "return" THEN "extract" ELSE "done"

\* a hit that goes to the network all the same
GetLookupRefetches ==
    /\ pc = "lookup"
    /\ handles' = handles - 1
    /\ pc' = "fetch"
    /\ UNCHANGED <<clientVars, cacheFile, shelf, site, net, begin, fetched, got,
                   response, failures, cmd, url, scrape, locals>>

\* lines 169-171 and the close at the end of the with block (line 162)
GetLookup ==
    /\ pc = "lookup"
    /\ handles' = handles - 1
    /\ IF url \in DOMAIN shelf
       THEN LeaveGet([kind |-> "return", content |-> shelf[url]])
       ELSE pc' = "fetch" /\ got' = got
    /\ UNCHANGED <<clientVars, cacheFile, shelf, site, net, begin, fetched,
                   response, failures, cmd, url, scrape, locals>>

\* the store raises inside the with block (lines 169-171): the generator of
\* _shelf gets the exception at its yield and never reaches shelf.close()
GetLookupFails ==
    /\ pc = "lookup"
    /\ failures < MaxFailures
    /\ failures' = failures + 1
    /\ LeaveGet([kind |-> "StoreError", content |-> EmptyPage])
    /\ UNCHANGED <<clientVars, cacheFile, shelf, handles, site, net, begin, fetched,
                   response, cmd, url, scrape, locals>>

\* the live fetch with the assert left out
GetFetchNoAssert ==
    /\ pc = "fetch"
    /\ \E r \in LiveResponses :
        /\ net' = net + 1
        /\ IF r.kind = "transport"
           THEN /\ LeaveGet([kind |-> "TransportError", content |-> EmptyPage])
                /\ UNCHANGED <<handles, response, fetched>>
           ELSE IF cacheFile
           THEN /\ handles' = handles + 1
                /\ response' = r
                /\ pc' = "store"
                /\ UNCHANGED <<got, fetched>>
           ELSE /\ LeaveGet([kind |-> "return", content |-> r.content])
                /\ fetched' = IF r.ok /\ url \notin DOMAIN fetched
                              THEN DictSet(fetched, url, r.content)
                              ELSE fetched
                /\ UNCHANGED <<handles, response>>
    /\ UNCHANGED <<clientVars, cacheFile, shelf, site, begin, failures, cmd, url,
                   scrape, locals>>

\* lines 173-177: the live GET, the assert, and the store opened for the write
GetFetch ==
    /\ pc = "fetch"
    /\ \E r \in LiveResponses :
        /\ net' = net + 1
        /\ IF r.kind = "transport"
           THEN /\ LeaveGet([kind |-> "TransportError", content |-> EmptyPage])
                /\ UNCHANGED <<handles, response, fetched>>
           ELSE IF ~r.ok
           THEN /\ LeaveGet([kind |-> "AssertionError", content |-> EmptyPage])
                /\ UNCHANGED <<handles, response, fetched>>
           ELSE IF cacheFile
           THEN /\ handles' = handles + 1
                /\ response' = r
                /\ pc' = "store"
                /\ UNCHANGED <<got, fetched>>
           ELSE /\ LeaveGet([kind |-> "return", content |-> r.content])
                /\ fetched' = IF r.ok /\ url \notin DOMAIN fetched
                              THEN DictSet(fetched, url, r.content)
                              ELSE fetched
                /\ UNCHANGED <<handles, response>>
    /\ UNCHANGED <<clientVars, cacheFile, shelf, site, begin, failures, cmd, url,
                   scrape, locals>>

\* lines 178-180 and the close at the end of the with block (line 162)
GetStore ==
    /\ pc = "store"
    /\ shelf' = DictSet(shelf, url, response.content)
    /\ handles' = handles - 1
    /\ fetched' = IF response.ok /\ url \notin DOMAIN fetched
                  THEN DictSet(fetched, url, response.content)
                  ELSE fetched
    /\ LeaveGet([kind |-> "return", content |-> response.content])
    /\ UNCHANGED <<clientVars, cacheFile, site, net, begin, response, failures,
                   cmd, url, scrape, locals>>

\* the write raises inside the with block (line 178): shelf.close() is skipped
GetStoreFails ==
    /\ pc = "store"
    /\ failures < MaxFailures
    /\ failures' = failures + 1
    /\ LeaveGet([kind |-> "StoreError", content |-> EmptyPage])
    /\ UNCHANGED <<clientVars, cacheFile, shelf, handles, site, net, begin, fetched,
                   response, cmd, url, scrape, locals>>

\* a caller of CachedHttpClient.get
StartGet ==
    /\ pc = "idle"
    /\ \E u \in URLs :
        /\ cmd' = "get"
        /\ EnterGet(u)
    /\ UNCHANGED <<clientVars, cacheFile, shelf, site, fetched, failures, scrape, locals>>

\* the call is over; the caller may make another
Finish ==
    /\ pc = "done"
    /\ cmd' = "none"
    /\ pc' = "idle"
    /\ UNCHANGED <<clientVars, cacheVars, url, scrape, locals>>

\* Two documents the site may serve in turn
PageA == [content |-> TRUE, title |-> "Nice Flat", image |-> "//img.example/1.jpg",
          price |-> "EUR 1,500", headers |-> <<"House", "2", "1">>, blocks |-> <<"A", "B">>]
PageB == [content |-> TRUE, title |-> "Nice Flat", image |-> "//img.example/1.jpg",
          price |-> "EUR 1,400", headers |-> <<"House", "2", "1">>, blocks |-> <<"A", "B">>]

InitCache ==
    /\ InitIdle
    /\ client \in Credentials
    /\ cacheFile \in BOOLEAN
    /\ site = {PageA, PageB}

NextCache ==
    \/ StartGet
    \/ GetLookup
    \/ GetLookupFails
    \/ GetFetch
    \/ GetStore
    \/ GetStoreFails
    \/ Finish

SpecCache == InitCache /\ [][NextCache]_vars

-----------------------------------------------------------------------------
(* scrape_daft_page *)

\* str.join
RECURSIVE Join(_, _)
Join(parts, sep) ==
    IF Len(parts) = 0 THEN ""
    ELSE IF Len(parts) = 1 THEN parts[1]
    ELSE parts[1] \o sep \o Join(Tail(parts), sep)

\* lines 327-328 without the rewrite
NormalizeImageUnchanged(src) == src

\* lines 327-328: a protocol-relative src gets the https scheme
NormalizeImage(src) == IF HasPrefix(src, "//") THEN "https:" \o src ELSE src

\* scrape_daft_page raises at a lookup: no record is returned
Raised(at, reads) ==
    [status |-> "raised", failed_at |-> at, reads |-> reads, info |-> EmptyDict]

\* Lines 322-345: the lookups after the content container, in the order the
\* code makes them, each raising when its node, attribute or index is missing.
\* Python's hdrtext[1] and hdrtext[2] are headers[2] and headers[3] here.
ExtractFields(html, u) ==
    IF html.title = Absent THEN Raised("title", <<"content", "title">>)
    ELSE IF html.image \in {Absent, NoAttr}
    THEN Raised("image", <<"content", "title", "image">>)
    ELSE IF html.price = Absent
    THEN Raised("price", <<"content", "title", "image", "price">>)
    ELSE IF Len(html.headers) < 2
    THEN Raised("beds", <<"content", "title", "image", "price", "headers">>)
    ELSE IF Len(html.headers) < 3
    THEN Raised("baths", <<"content", "title", "image", "price", "headers">>)
    ELSE [status |-> "returned", failed_at |-> "",
          reads |-> <<"content", "title", "image", "price", "headers", "description">>,
          info |-> [url |-> u,
                    title |-> html.title,
                    image |-> NormalizeImage(html.image),
                    price |-> html.price,
                    beds |-> html.headers[2],
                    baths |-> html.headers[3],
                    description |-> Join(html.blocks, "\n\n")]]

\* the extraction going on without a content container
ExtractWithoutContainer(html, u) == ExtractFields(html, u)

\* Lines 318-345 on the parsed document: the content container first (line 320)
Extract(html, u) ==
    IF ~html.content THEN Raised("content", <<"content">>)
    ELSE ExtractFields(html, u)

\* scrape_daft_page after the fetch (lines 318-345), and where its caller goes
ExtractStep ==
    /\ pc = "extract"
    /\ scrape' = Extract(got.content, url)
    /\ pc' = IF scrape'.status = "returned" /\ cmd = "import_ad" THEN "get_board"
             ELSE "done"
    /\ UNCHANGED <<clientVars, cacheVars, cmd, url, locals>>

\* scrape_daft: scrape_daft_page, then console output only
StartScrapeDaft ==
    /\ pc = "idle"
    /\ \E u \in URLs :
        /\ cmd' = "scrape_daft"
        /\ EnterGet(u)
    /\ UNCHANGED <<clientVars, cacheFile, shelf, site, fetched, failures, scrape, locals>>

-----------------------------------------------------------------------------
(* import_ad *)

\* import_ad begins with scrape_daft_page (line 289)
StartImportAd ==
    /\ pc = "idle"
    /\ \E u \in URLs :
        /\ cmd' = "import_ad"
        /\ EnterGet(u)
    /\ UNCHANGED <<clientVars, cacheFile, shelf, site, fetched, failures, scrape, locals>>

\* What the task-board service may answer where `bodies` are the well-formed ones
Answers(bodies) ==
    [kind : {"response"}, status : {200}, body : bodies \cup {"{}"}]
    \cup {[kind |-> "response", status |-> 204, body |-> ""],
          [kind |-> "response", status |-> 404, body |-> ""],
          TransportFailure}

BoardBodies == {"{\"lists\":[{\"id\":\"l1\"},{\"id\":\"l2\"}]}", "{\"lists\":[]}"}
CardBodies == {"{\"id\":\"c1\"}"}
AttachmentBodies == {"{\"id\":\"a1\"}", "{\"id\":\"a2\"}"}

\* o['id'] on what a client call returned: the exception it raises, or none
IdError(o) ==
    IF o.kind = "return_None" THEN "TypeError"
    ELSE IF "id" \notin DOMAIN o.value THEN "KeyError"
    ELSE ""

\* the exception a client call ended with, or none
CallError(o) == IF o.kind \in {"return_json", "return_None"} THEN "" ELSE o.kind

\* board['lists'][0]['id'] (line 296): the exception it raises, or none
BoardError(o) ==
    IF o.kind = "return_None" THEN "TypeError"
    ELSE IF "lists" \notin DOMAIN o.value THEN "KeyError"
    ELSE IF Len(o.value["lists"]) = 0 THEN "IndexError"
    ELSE ""

\* line 298: the card title
CardTitle(data) ==
    Format(data["title"]) \o " - " \o Format(data["beds"]) \o " / "
        \o Format(data["baths"]) \o " - " \o Format(data["price"])

\* import_ad ends with an exception
ImportRaises(e) ==
    /\ locals' = [locals EXCEPT !.error = e]
    /\ pc' = "done"

\* lines 290-296: the client from the configuration, the board, its first list.
\* A configuration without the trello section raises before any request.
ImportGetBoard ==
    /\ pc = "get_board"
    /\ \/ /\ ImportRaises("NoSectionError")
          /\ UNCHANGED <<call, sent, outcome>>
       \/ \E resp \in Answers(BoardBodies) :
            LET r == get_board(client, "b1", "all", "all", resp)
                e == IF CallError(r.outcome) # "" THEN CallError(r.outcome)
                     ELSE BoardError(r.outcome)
            IN  /\ sent' = Append(sent, r.req)
                /\ outcome' = r.outcome
                /\ call' = [NoCall EXCEPT !.op = "get_board", !.method = "GET", !.resp = resp]
                /\ IF e # "" THEN ImportRaises(e)
                   ELSE /\ locals' = [locals EXCEPT !.target_list_id =
                                                        r.outcome.value["lists"][1]["id"]]
                        /\ pc' = "create_card"
    /\ UNCHANGED <<client, cacheVars, cmd, url, scrape>>

\* lines 298-306: the card is created
ImportCreateCard ==
    /\ pc = "create_card"
    /\ \E resp \in Answers(CardBodies) :
        LET r == create_card(client, locals.target_list_id, CardTitle(scrape.info),
                             scrape.info["description"], "bottom", PyNone, resp)
        IN  /\ sent' = Append(sent, r.req)
            /\ outcome' = r.outcome
            /\ call' = [NoCall EXCEPT !.op = "create_card", !.method = "POST", !.resp = resp]
            /\ IF CallError(r.outcome) # "" THEN ImportRaises(CallError(r.outcome))
               ELSE /\ locals' = [locals EXCEPT !.card = r.outcome]
                    /\ pc' = "attach_image"
    /\ UNCHANGED <<client, cacheVars, cmd, url, scrape>>

\* the image attach going on to the cover after the client raised
ImportAttachImageGoesOn ==
    /\ pc = "attach_image"
    /\ IF IdError(locals.card) # ""
       THEN /\ ImportRaises(IdError(locals.card))
            /\ UNCHANGED <<call, sent, outcome>>
       ELSE \E resp \in Answers(AttachmentBodies) :
            LET r == attach_to_card(client, locals.card.value["id"], PyNone,
                                    scrape.info["image"], PyNone, PyNone, resp)
            IN  /\ sent' = Append(sent, r.req)
                /\ outcome' = r.outcome
                /\ call' = [NoCall EXCEPT !.op = "attach_to_card", !.method = "POST",
                                          !.resp = resp]
                /\ locals' = [locals EXCEPT !.img_att = r.outcome]
                /\ pc' = "update_cover"
    /\ UNCHANGED <<client, cacheVars, cmd, url, scrape>>

\* line 308: card['id'], then the image is attached by url
ImportAttachImage ==
    /\ pc = "attach_image"
    /\ IF IdError(locals.card) # ""
       THEN /\ ImportRaises(IdError(locals.card))
            /\ UNCHANGED <<call, sent, outcome>>
       ELSE \E resp \in Answers(AttachmentBodies) :
            LET r == attach_to_card(client, locals.card.value["id"], PyNone,
                                    scrape.info["image"], PyNone, PyNone, resp)
            IN  /\ sent' = Append(sent, r.req)
                /\ outcome' = r.outcome
                /\ call' = [NoCall EXCEPT !.op = "attach_to_card", !.method = "POST",
                                          !.resp = resp]
                /\ IF CallError(r.outcome) # "" THEN ImportRaises(CallError(r.outcome))
                   ELSE /\ locals' = [locals EXCEPT !.img_att = r.outcome]
                        /\ pc' = "update_cover"
    /\ UNCHANGED <<client, cacheVars, cmd, url, scrape>>

\* line 309: img_att['id'], then the attachment is made the cover
ImportUpdateCover ==
    /\ pc = "update_cover"
    /\ IF IdError(locals.img_att) # ""
       THEN /\ ImportRaises(IdError(locals.img_att))
            /\ UNCHANGED <<call, sent, outcome>>
       ELSE \E resp \in Answers(CardBodies) :
            LET r == update_card(client, locals.card.value["id"], PyNone,
                                 locals.img_att.value["id"], resp)
            IN  /\ sent' = Append(sent, r.req)
                /\ outcome' = r.outcome
                /\ call' = [NoCall EXCEPT !.op = "update_card", !.method = "PUT",
                                          !.resp = resp]
                /\ IF CallError(r.outcome) # "" THEN ImportRaises(CallError(r.outcome))
                   ELSE /\ locals' = locals
                        /\ pc' = "attach_source"
    /\ UNCHANGED <<client, cacheVars, cmd, url, scrape>>

\* line 310: the source listing url is attached; import_ad returns
ImportAttachSource ==
    /\ pc = "attach_source"
    /\ \E resp \in Answers(AttachmentBodies) :
        LET r == attach_to_card(client, locals.card.value["id"], PyNone,
                                scrape.info["url"], PyNone, PyNone, resp)
        IN  /\ sent' = Append(sent, r.req)
            /\ outcome' = r.outcome
            /\ call' = [NoCall EXCEPT !.op = "attach_to_card", !.method = "POST",
                                      !.resp = resp]
            /\ IF CallError(r.outcome) # "" THEN ImportRaises(CallError(r.outcome))
               ELSE /\ locals' = [locals EXCEPT !.error = "completed"]
                    /\ pc' = "done"
    /\ UNCHANGED <<client, cacheVars, cmd, url, scrape>>

\* The documents a listing url may serve
Titles == {Absent, PyNone, "Nice Flat"}
Images == {Absent, NoAttr, "", "//img.example/1.jpg", "https://img.example/2.jpg"}
Prices == {Absent, PyNone, "EUR 1,500"}
HeaderLists == {<<>>, <<"House">>, <<"House", "2">>, <<"House", "2", "1">>,
                <<"House", PyNone, "1">>, <<"House", "2", "1", "Furnished">>}
BlockLists == {<<>>, <<"A">>, <<"A", "B">>}
Documents == [content : BOOLEAN, title : Titles, image : Images, price : Prices,
              headers : HeaderLists, blocks : BlockLists]

\* One run of a command on a site serving one document, with no store, an
\* empty store, or a store where an earlier run left the first url's document
InitImport ==
    /\ InitIdleBut
    /\ client = [api_key |-> "KEY1", user_token |-> "TOKEN"]
    /\ \E d \in Documents :
        /\ site = {d}
        /\ \/ cacheFile = FALSE /\ shelf = EmptyDict
           \/ cacheFile = TRUE /\ shelf = EmptyDict
           \/ cacheFile = TRUE /\ shelf = [u \in {"http://daft.example/1"} |-> d]
    /\ fetched = shelf

NextImport ==
    \/ StartScrapeDaft
    \/ StartImportAd
    \/ GetLookup
    \/ GetLookupFails
    \/ GetFetch
    \/ GetStore
    \/ GetStoreFails
    \/ ExtractStep
    \/ ImportGetBoard
    \/ ImportCreateCard
    \/ ImportAttachImage
    \/ ImportUpdateCover
    \/ ImportAttachSource

SpecImport == InitImport /\ [][NextImport]_vars

-----------------------------------------------------------------------------
(* Properties of TrelloClient, checked under SpecClient *)

Called == call.op # "none"
QueryMethods == {"GET", "get", "HEAD", "OPTIONS"}
Channel == IF call.method \in QueryMethods THEN "params" ELSE "data"
OtherChannel == IF call.method \in QueryMethods THEN "data" ELSE "params"
HasResponse == Called /\ call.resp.kind = "response"
SentData == sent[1].kwargs["data"]

\* C1: every call sends one request that carries key = api_key and token =
\* user_token in the query parameters for GET, HEAD and OPTIONS and in the body
\* for every other method, over whatever the caller put under those names; the
\* other channel is sent exactly as the caller supplied it (or not at all).
C1_CredentialsInChosenChannel ==
    Called =>
        LET kw == sent[1].kwargs IN
        /\ Len(sent) = 1
        /\ sent[1].method = call.method
        /\ Channel \in DOMAIN kw
        /\ {"key", "token"} \subseteq DOMAIN kw[Channel]
        /\ kw[Channel]["key"] = client.api_key
        /\ kw[Channel]["token"] = client.user_token
        /\ call.op = "request" =>
              /\ (OtherChannel \in DOMAIN kw) = (OtherChannel \in DOMAIN call.kwargs)
              /\ OtherChannel \in DOMAIN kw => kw[OtherChannel] = call.kwargs[OtherChannel]
              /\ Channel \in DOMAIN call.kwargs =>
                    \A k \in DOMAIN call.kwargs[Channel] \ {"key", "token"} :
                        k \in DOMAIN kw[Channel] /\ kw[Channel][k] = call.kwargs[Channel][k]
        /\ call.op # "request" => OtherChannel \notin DOMAIN kw

\* a POST whose caller supplied its own key and token in both channels
C1_Witness ==
    /\ call.op = "request"
    /\ call.method = "POST"
    /\ DOMAIN call.kwargs = {"params", "data"}
    /\ DOMAIN call.kwargs["data"] = {"key", "token", "q"}
    /\ DOMAIN call.kwargs["params"] = {"key", "token"}
    /\ SentData["key"] = client.api_key
    /\ SentData["q"] = "caller"

\* C2 as stated: the status alone fixes the outcome, and every ok status other
\* than 204 returns the parsed body.
C2_OutcomeByStatusAlone ==
    HasResponse =>
        /\ Len(sent) = 1
        /\ ~Ok(call.resp.status) =>
              /\ outcome.kind = "TrelloClientException"
              /\ outcome.status = call.resp.status
              /\ outcome.response = call.resp
        /\ call.resp.status = 204 =>
              outcome.kind = "return_None" /\ ~outcome.json_called
        /\ (Ok(call.resp.status) /\ call.resp.status # 204) =>
              outcome.kind = "return_json"

\* C2 amended: one request per call; a non-ok status raises
\* TrelloClientException with that status and the response; 204 returns None
\* without parsing; any other ok status parses the body, returning the parsed
\* value when the body is JSON and raising the parse error when it is not.
C2_OutcomeByStatusAndBody ==
    HasResponse =>
        /\ Len(sent) = 1
        /\ ~Ok(call.resp.status) =>
              /\ outcome.kind = "TrelloClientException"
              /\ outcome.status = call.resp.status
              /\ outcome.response = call.resp
              /\ ~outcome.json_called
        /\ call.resp.status = 204 =>
              outcome.kind = "return_None" /\ ~outcome.json_called
        /\ (Ok(call.resp.status) /\ call.resp.status # 204) =>
              /\ outcome.json_called
              /\ JsonParse(call.resp.body).ok =>
                    /\ outcome.kind = "return_json"
                    /\ outcome.value = JsonParse(call.resp.body).value
              /\ ~JsonParse(call.resp.body).ok => outcome.kind = "ValueError"

\* a 200 whose body is not JSON: one request sent, the parse error raised
C2_Witness ==
    /\ HasResponse
    /\ call.resp.status = 200
    /\ call.resp.body = ""
    /\ outcome.kind = "ValueError"
    /\ outcome.json_called
    /\ Len(sent) = 1

\* C7 as stated: every falsy cover that is not None is sent as the empty string.
C7_FalsyCoverSentAsEmpty ==
    (call.op = "update_card" /\ call.args["cover_attachment_id"] # PyNone
       /\ ~Truthy(call.args["cover_attachment_id"])) =>
        /\ "cover_attachment_id" \in DOMAIN SentData
        /\ SentData["cover_attachment_id"] = ""

\* C7 amended: a cover of None sends no cover field; False sends the cover field
\* as the empty string; every other value, falsy or not, is sent as it is (so
\* "" goes as "" and 0 as 0).  The name field is sent iff name is not None.
C7_UpdateCardCover ==
    call.op = "update_card" =>
        LET cover == call.args["cover_attachment_id"] IN
        /\ cover = PyNone => "cover_attachment_id" \notin DOMAIN SentData
        /\ cover # PyNone => "cover_attachment_id" \in DOMAIN SentData
        /\ cover = PyFalse => SentData["cover_attachment_id"] = ""
        /\ cover \notin {PyNone, PyFalse} => SentData["cover_attachment_id"] = cover
        /\ ("name" \in DOMAIN SentData) = (call.args["name"] # PyNone)
        /\ "name" \in DOMAIN SentData => SentData["name"] = call.args["name"]
        /\ DOMAIN SentData \subseteq {"name", "cover_attachment_id", "key", "token"}

\* False passed as the cover, with no name: the body clears the cover only
C7_Witness ==
    /\ call.op = "update_card"
    /\ call.args["cover_attachment_id"] = PyFalse
    /\ call.args["name"] = PyNone
    /\ SentData["cover_attachment_id"] = ""
    /\ "name" \notin DOMAIN SentData

-----------------------------------------------------------------------------
(* Properties of CachedHttpClient.get, checked under SpecCache *)

\* C3: with a store configured, the entry of a url that was once fetched with
\* success stays in the store with the bytes of that first fetch, whatever gets
\* follow; and a get of such a url issues no network call and returns nothing
\* but those bytes (it ends with them, or with the store's own failure).
C3_FetchedOnceServedFromStore ==
    cacheFile =>
        /\ \A u \in DOMAIN fetched : u \in DOMAIN shelf /\ shelf[u] = fetched[u]
        /\ begin.known =>
              /\ net = 0
              /\ pc \notin {"fetch", "store"}
              /\ got.kind \in {"none", "return", "StoreError"}
              /\ got.kind = "return" => got.content = fetched[url]

\* a second get of a url returned the first fetch's bytes without the network,
\* while the other url is stored with another body
C3_Witness ==
    /\ cacheFile
    /\ begin.known
    /\ pc = "done"
    /\ net = 0
    /\ got.kind = "return"
    /\ got.content = fetched[url]
    /\ DOMAIN shelf = URLs
    /\ \E u \in URLs : shelf[u] # shelf[url]

\* C9: outside the two with blocks of get no handle on the store is open: none
\* when get has ended, on any path, and none while the live GET is in flight.
C9_StoreClosedOutsideAccess ==
    pc \notin {"lookup", "store"} => handles = 0

\* C10: with a store configured, a get whose live fetch is answered with an
\* error status ends in the assertion failure with no bytes, after one network
\* call, with the store as it was when the get began and no entry for the url;
\* and the store holds entries only for urls that were fetched with success.
C10_FailedFetchLeavesStore ==
    cacheFile =>
        /\ got.kind = "AssertionError" =>
              /\ pc \in {"done", "idle"}
              /\ net = 1
              /\ got.content = EmptyPage
              /\ shelf = begin.shelf
              /\ url \notin DOMAIN shelf
        /\ DOMAIN shelf \subseteq DOMAIN fetched

\* the fetch of one url failed while the other url is in the store
C10_Witness ==
    /\ cacheFile
    /\ got.kind = "AssertionError"
    /\ net = 1
    /\ DOMAIN shelf = URLs \ {url}
    /\ shelf = begin.shelf

-----------------------------------------------------------------------------
(* Properties of scrape_daft_page and import_ad, checked under SpecImport *)

IsWrite(r) == r.method # "GET"
Writes == SelectSeq(sent, IsWrite)
Data(r) == r.kwargs["data"]
Completed == cmd = "import_ad" /\ locals.error = "completed"
Page == got.content
RecordFields == {"url", "title", "image", "price", "beds", "baths", "description"}

\* the id in the body the service answered a call with
AnsweredId(o) == o.value["id"]

\* C4: import_ad sends one GET for the board and then at most the four writes,
\* in this order and each once: the card created in the board's first list,
\* the image attached to that card, the card updated with the cover set to the
\* id the image attach returned, the source url attached to that card.  A
\* call that raises ends the command on the spot, with nothing sent after it
\* and no DELETE.
C4_WritesInOrder ==
    cmd = "import_ad" =>
        /\ Len(sent) <= 5
        /\ Len(sent) = Len(Writes) + (IF Len(sent) = 0 THEN 0 ELSE 1)
        /\ \A i \in 1..Len(sent) :
              /\ sent[i].method # "DELETE"
              /\ (i = 1) = (sent[i].method = "GET")
        /\ Len(Writes) >= 1 =>
              /\ Writes[1].method = "POST"
              /\ Writes[1].url = "https://api.trello.com/1/cards"
              /\ Data(Writes[1])["idList"] = "l1"
        /\ Len(Writes) >= 2 =>
              /\ Writes[2].method = "POST"
              /\ Writes[2].url = "https://api.trello.com/1/cards/"
                                    \o AnsweredId(locals.card) \o "/attachments"
              /\ DOMAIN Data(Writes[2]) \subseteq {"url", "key", "token"}
              /\ "url" \in DOMAIN Data(Writes[2]) =>
                    Data(Writes[2])["url"] = scrape.info["image"]
        /\ Len(Writes) >= 3 =>
              /\ Writes[3].method = "PUT"
              /\ Writes[3].url = "https://api.trello.com/1/cards/" \o AnsweredId(locals.card)
              /\ Data(Writes[3])["cover_attachment_id"] = AnsweredId(locals.img_att)
        /\ Len(Writes) >= 4 =>
              /\ Writes[4].method = "POST"
              /\ Writes[4].url = Writes[2].url
              /\ Data(Writes[4])["url"] = url
        /\ (sent # <<>> /\ CallError(outcome) # "") =>
              pc = "done" /\ locals.error = CallError(outcome)
        /\ locals.error # "" => pc = "done"

\* the image attach was refused: the card stays, nothing follows
C4_Witness ==
    /\ cmd = "import_ad"
    /\ pc = "done"
    /\ Len(Writes) = 2
    /\ outcome.kind = "TrelloClientException"
    /\ outcome.status = 404
    /\ locals.error = "TrelloClientException"

\* the image url the claim describes, from the src attribute of the page
SchemeNormalized(i) == IF SubSeq(i, 1, 2) = "//" THEN "https:" \o i ELSE i

NameOf(t, b, h, p) == Format(t) \o " - " \o Format(b) \o " / " \o Format(h) \o " - " \o Format(p)

\* C5 as stated: every completed import has created the card under the name
\* "t - b / h - p", attached the scheme-normalized image url and made that
\* attachment the cover, and attached the source url.
C5_CardFromRecord ==
    Completed =>
        /\ Data(Writes[1])["name"] =
               NameOf(Page.title, Page.headers[2], Page.headers[3], Page.price)
        /\ "url" \in DOMAIN Data(Writes[2])
        /\ Data(Writes[2])["url"] = SchemeNormalized(Page.image)
        /\ Data(Writes[3])["cover_attachment_id"] = AnsweredId(locals.img_att)
        /\ Data(Writes[4])["url"] = url

\* C5 amended: every completed import has created the card under the name
\* "t - b / h - p" (a field without text printed as None), made the attachment
\* returned by the image attach the cover, and attached the source url
\* unchanged; the image attach carries the scheme-normalized image url when the
\* image src is not empty, and no url at all when it is the empty string.
C5_CardFromRecordNonEmptyImage ==
    Completed =>
        /\ Data(Writes[1])["name"] =
               NameOf(Page.title, Page.headers[2], Page.headers[3], Page.price)
        /\ Page.image # "" =>
              /\ "url" \in DOMAIN Data(Writes[2])
              /\ Data(Writes[2])["url"] = SchemeNormalized(Page.image)
        /\ Page.image = "" => "url" \notin DOMAIN Data(Writes[2])
        /\ Data(Writes[3])["cover_attachment_id"] = AnsweredId(locals.img_att)
        /\ Data(Writes[4])["url"] = url

\* the listing of the example, imported to the end
C5_Witness ==
    /\ Completed
    /\ Page.image = "//img.example/1.jpg"
    /\ Data(Writes[1])["name"] = "Nice Flat - 2 / 1 - EUR 1,500"
    /\ Data(Writes[2])["url"] = "https://img.example/1.jpg"
    /\ locals.img_att.value["id"] = "a2"
    /\ Data(Writes[3])["cover_attachment_id"] = "a2"
    /\ Data(Writes[4])["url"] = "http://daft.example/2"

\* C6: a record scrape_daft_page returns has all seven fields, none of them
\* None: a page lacking a field's node or text makes the extraction fail.
C6_NoNullField ==
    scrape.status = "returned" =>
        /\ DOMAIN scrape.info = RecordFields
        /\ \A f \in RecordFields : scrape.info[f] # PyNone

\* C8: a document without the content container makes scrape_daft_page fail at
\* that lookup, the first it makes; and in import_ad nothing is sent to the
\* task-board service unless the fetch and the extraction both succeeded.
C8_ContainerFirstNothingSent ==
    /\ (scrape.status # "none" /\ ~Page.content) =>
          /\ scrape.status = "raised"
          /\ scrape.failed_at = "content"
          /\ scrape.reads = <<"content">>
          /\ scrape.info = EmptyDict
    /\ sent # <<>> => (got.kind = "return" /\ scrape.status = "returned")
    /\ (scrape.status = "raised" \/ got.kind \notin {"none", "return"}) =>
          (sent = <<>> /\ pc = "done")

\* import_ad of a page that has every field but no content container
C8_Witness ==
    /\ cmd = "import_ad"
    /\ pc = "done"
    /\ ~Page.content
    /\ Page.title = "Nice Flat"
    /\ Page.image = "//img.example/1.jpg"
    /\ Len(Page.headers) = 3
    /\ scrape.failed_at = "content"
    /\ sent = <<>>

====
